---- MODULE Spec2Model ----
(***************************************************************************)
(* Scanner (src/src/scanner.rs) and recursive-descent expression parser    *)
(* (src/src/parser.rs) of rust-jlox.                                        *)
(*                                                                         *)
(* A character is a one-character string; the character U+00E9, whose      *)
(* UTF-8 encoding is two bytes long, is written EAcute.  A text (source,   *)
(* lexeme, literal) is a sequence of characters.  Rust indices are         *)
(* 0-based: chars[i] is src[i + 1] here.                                    *)
(***************************************************************************)
EXTENDS Integers, Sequences, FiniteSets, TLC

VARIABLES
    source,     \* Scanner.source / Scanner.chars: the text, as characters
    start,      \* Scanner.start
    current,    \* Scanner.current
    line,       \* Scanner.line
    tokens,     \* Scanner.tokens
    had_error,  \* Scanner.had_error
    reports,    \* what Scanner::error wrote to stderr: <<line, message>>
    pc,         \* "scanning", "done" (scan_tokens returned), "panicked", "idle"
    ptokens,    \* Parser.tokens
    pcurrent,   \* Parser.current
    ppc,        \* "none" (no parser), "ready" (Parser::new), "returned", "panicked"
    presult,    \* what Parser::expression returned
    jlox_had_error,  \* Jlox.had_error
    jpc,        \* "idle" (no driver), "new" (Jlox::new), "returned", "exited"
    exit_code,  \* the code the process exited with, NoExit while it runs
    stdout      \* the texts Jlox::run printed

vars == <<source, start, current, line, tokens, had_error, reports, pc,
          ptokens, pcurrent, ppc, presult,
          jlox_had_error, jpc, exit_code, stdout>>

scanVars == <<source, start, current, line, tokens, had_error, reports, pc>>
parseVars == <<ptokens, pcurrent, ppc, presult>>
driverVars == <<jlox_had_error, jpc, exit_code, stdout>>

-----------------------------------------------------------------------------
(* Bounds of the model *)

MaxLen == 5        \* longest source text drawn exhaustively from a theme
MaxTokens == 5     \* longest token sequence (Eof apart) drawn exhaustively
MaxCursorTokens == 4   \* the same, where every production is called at every index

-----------------------------------------------------------------------------
(* Characters *)

EAcute == "U+00E9"      \* a non-ASCII letter, two bytes in UTF-8
NUL == "U+0000"         \* '\0', what peek and peek_next return at the end
OOB == "index out of bounds"   \* chars[i] with i >= chars.len(): a panic
QUOTE == "\""
NL == "\n"

AsciiDigits == {"0", "1", "2", "3", "4", "5", "6", "7", "8", "9"}
AsciiLetters ==
    {"a", "b", "c", "d", "e", "f", "g", "h", "i", "j", "k", "l", "m",
     "n", "o", "p", "q", "r", "s", "t", "u", "v", "w", "x", "y", "z",
     "A", "B", "C", "D", "E", "F", "G", "H", "I", "J", "K", "L", "M",
     "N", "O", "P", "Q", "R", "S", "T", "U", "V", "W", "X", "Y", "Z"}

is_ascii_digit(c) == c \in AsciiDigits
is_ascii_alphabetic(c) == c \in AsciiLetters
\* char::is_alphanumeric is the Unicode property: it holds of U+00E9 too
is_alphanumeric(c) == c \in AsciiLetters \cup AsciiDigits \cup {EAcute}

\* the length of the UTF-8 encoding of a character
Utf8Len(c) == IF c = EAcute THEN 2 ELSE 1

RECURSIVE ByteOffset(_, _)
\* the byte offset in the String of the character of index i (0-based)
ByteOffset(src, i) ==
    IF i = 0 THEN 0 ELSE ByteOffset(src, i - 1) + Utf8Len(src[i])

\* String::len(): the length in bytes
ByteLen(src) == ByteOffset(src, Len(src))

IsCharBoundary(src, b) == \E i \in 0..Len(src) : ByteOffset(src, i) = b
CharIndexOf(src, b) == CHOOSE i \in 0..Len(src) : ByteOffset(src, i) = b

\* &source[a..b]: a slice by BYTE offsets; it panics when an offset is past
\* the end or inside the encoding of a character
ByteSlice(src, a, b) ==
    IF a > b \/ b > ByteLen(src)
       \/ ~IsCharBoundary(src, a) \/ ~IsCharBoundary(src, b)
    THEN [panic |-> TRUE, text |-> <<>>]
    ELSE [panic |-> FALSE,
          text |-> SubSeq(src, CharIndexOf(src, a) + 1, CharIndexOf(src, b))]

-----------------------------------------------------------------------------
(* Tokens *)

None == <<>>
Some(text) == <<text>>

Token(type, lexeme, literal, ln) ==
    [token_type |-> type, lexeme |-> lexeme, literal |-> literal, line |-> ln]

\* Scanner::new: the keyword table
KeywordTable ==
    { <<<<"a", "n", "d">>, "And">>,
      <<<<"c", "l", "a", "s", "s">>, "Class">>,
      <<<<"e", "l", "s", "e">>, "Else">>,
      <<<<"f", "a", "l", "s", "e">>, "False">>,
      <<<<"f", "o", "r">>, "For">>,
      <<<<"f", "u", "n">>, "Fun">>,
      <<<<"i", "f">>, "If">>,
      <<<<"n", "i", "l">>, "Nil">>,
      <<<<"o", "r">>, "Or">>,
      <<<<"p", "r", "i", "n", "t">>, "Print">>,
      <<<<"r", "e", "t", "u", "r", "n">>, "Return">>,
      <<<<"s", "u", "p", "e", "r">>, "Super">>,
      <<<<"t", "h", "i", "s">>, "This">>,
      <<<<"t", "r", "u", "e">>, "True">>,
      <<<<"v", "a", "r">>, "Var">>,
      <<<<"w", "h", "i", "l", "e">>, "While">> }

\* keywords.get(text).copied().unwrap_or(TokenType::Identifier)
KeywordOrIdentifier(text) ==
    IF \E kw \in KeywordTable : kw[1] = text
    THEN (CHOOSE kw \in KeywordTable : kw[1] = text)[2]
    ELSE "Identifier"

-----------------------------------------------------------------------------
(* Scanner.  A scanner state st is                                          *)
(* [start, current, line, tokens, had_error, reports, panic].               *)

is_at_end(src, cur) == cur >= ByteLen(src)

peek(src, cur) ==
    IF is_at_end(src, cur) THEN NUL
    ELSE IF cur < Len(src) THEN src[cur + 1] ELSE OOB

peek_next(src, cur) ==
    IF cur + 1 >= ByteLen(src) THEN NUL
    ELSE IF cur + 1 < Len(src) THEN src[cur + 2] ELSE OOB

Panicked(st) == [st EXCEPT !.panic = TRUE]

\* match_char: "yes" (consumed), "no", or "panic" (peek indexed past chars)
match_char(src, cur, expected) ==
    IF is_at_end(src, cur) THEN "no"
    ELSE IF peek(src, cur) = OOB THEN "panic"
    ELSE IF peek(src, cur) # expected THEN "no"
    ELSE "yes"

add_token_literal(src, st, type, literal) ==
    LET text == ByteSlice(src, st.start, st.current)
    IN  IF text.panic THEN Panicked(st)
        ELSE [st EXCEPT !.tokens = Append(@, Token(type, text.text, literal, st.line))]

add_token(src, st, type) == add_token_literal(src, st, type, None)

\* Scanner::error: it prints self.line (its line parameter is unused)
error(st, message) ==
    [st EXCEPT !.had_error = TRUE, !.reports = Append(@, <<st.line, message>>)]

\* '!' '=' '<' '>': the two-character token when a '=' follows
OneOrTwo(src, st, two, one) ==
    LET m == match_char(src, st.current, "=")
    IN  CASE m = "panic" -> Panicked(st)
          [] m = "yes" -> add_token(src, [st EXCEPT !.current = @ + 1], two)
          [] OTHER -> add_token(src, st, one)

RECURSIVE CommentLoop(_, _)
\* while self.peek() != '\n' && !self.is_at_end() { self.advance(); }
CommentLoop(src, st) ==
    LET c == peek(src, st.current)
    IN  IF c = OOB THEN Panicked(st)
        ELSE IF c # NL /\ ~is_at_end(src, st.current)
        THEN CommentLoop(src, [st EXCEPT !.current = @ + 1])
        ELSE st

RECURSIVE StringLoopNoNewline(_, _)
\* the loop of scan_string without the count of the newlines
StringLoopNoNewline(src, st) ==
    IF is_at_end(src, st.current) THEN st
    ELSE LET c == peek(src, st.current)
         IN  IF c = OOB THEN Panicked(st)
             ELSE IF c # QUOTE
             THEN StringLoopNoNewline(src, [st EXCEPT !.current = @ + 1])
             ELSE st

RECURSIVE StringLoop(_, _)
\* while !self.is_at_end() && self.peek() != '"' { count '\n'; advance }
StringLoop(src, st) ==
    IF is_at_end(src, st.current) THEN st
    ELSE LET c == peek(src, st.current)
         IN  IF c = OOB THEN Panicked(st)
             ELSE IF c # QUOTE
             THEN StringLoop(src, [st EXCEPT !.current = @ + 1,
                                             !.line = IF c = NL THEN @ + 1 ELSE @])
             ELSE st

scan_string(src, st0) ==
    LET st == StringLoop(src, st0)
    IN  IF st.panic THEN st
        ELSE IF is_at_end(src, st.current) THEN error(st, "Unterminated string.")
        ELSE LET st1 == [st EXCEPT !.current = @ + 1]   \* the closing quote
                 value == ByteSlice(src, st1.start + 1, st1.current - 1)
             IN  IF value.panic THEN Panicked(st1)
                 ELSE add_token_literal(src, st1, "String", Some(value.text))

RECURSIVE DigitLoop(_, _)
\* while self.peek().is_ascii_digit() { self.advance(); }
DigitLoop(src, st) ==
    LET c == peek(src, st.current)
    IN  IF c = OOB THEN Panicked(st)
        ELSE IF is_ascii_digit(c) THEN DigitLoop(src, [st EXCEPT !.current = @ + 1])
        ELSE st

scan_number(src, st0) ==
    LET st == DigitLoop(src, st0)
        frac == IF peek(src, st.current) = "."
                THEN IF peek_next(src, st.current) = OOB THEN Panicked(st)
                     ELSE IF is_ascii_digit(peek_next(src, st.current))
                     THEN DigitLoop(src, [st EXCEPT !.current = @ + 1])
                     ELSE st
                ELSE st
    IN  IF st.panic THEN st
        ELSE IF frac.panic THEN frac
        ELSE LET value == ByteSlice(src, frac.start, frac.current)
             IN  IF value.panic THEN Panicked(frac)
                 ELSE add_token_literal(src, frac, "Number", Some(value.text))

RECURSIVE IdentifierLoop(_, _)
\* while self.peek().is_alphanumeric() || self.peek() == '_' { advance }
IdentifierLoop(src, st) ==
    LET c == peek(src, st.current)
    IN  IF c = OOB THEN Panicked(st)
        ELSE IF is_alphanumeric(c) \/ c = "_"
        THEN IdentifierLoop(src, [st EXCEPT !.current = @ + 1])
        ELSE st

scan_identifier(src, st0) ==
    LET st == IdentifierLoop(src, st0)
        text == ByteSlice(src, st.start, st.current)
    IN  IF st.panic THEN st
        ELSE IF text.panic THEN Panicked(st)
        ELSE add_token(src, st, KeywordOrIdentifier(text.text))

SingleCharType(c) ==
    CASE c = "(" -> "LeftParen"
      [] c = ")" -> "RightParen"
      [] c = "{" -> "LeftBrace"
      [] c = "}" -> "RightBrace"
      [] c = "," -> "Comma"
      [] c = "." -> "Dot"
      [] c = "-" -> "Minus"
      [] c = "+" -> "Plus"
      [] c = ";" -> "Semicolon"
      [] c = "*" -> "Star"

SingleChars == {"(", ")", "{", "}", ",", ".", "-", "+", ";", "*"}

\* scan_token, entered with start = current and not at the end
scan_token(src, st0) ==
    LET c == peek(src, st0.current)                      \* self.advance()
        st == [st0 EXCEPT !.current = @ + 1]
    IN  IF c = OOB THEN Panicked(st0)
        ELSE CASE c \in SingleChars -> add_token(src, st, SingleCharType(c))
               [] c = "!" -> OneOrTwo(src, st, "BangEqual", "Bang")
               [] c = "=" -> OneOrTwo(src, st, "EqualEqual", "Equal")
               [] c = "<" -> OneOrTwo(src, st, "LessEqual", "Less")
               [] c = ">" -> OneOrTwo(src, st, "GreaterEqual", "Greater")
               [] c = "/" ->
                    LET m == match_char(src, st.current, "/")
                    IN  CASE m = "panic" -> Panicked(st)
                          [] m = "yes" -> CommentLoop(src, [st EXCEPT !.current = @ + 1])
                          [] OTHER -> add_token(src, st, "Slash")
               [] c \in {" ", "\r", "\t"} -> st
               [] c = NL -> [st EXCEPT !.line = @ + 1]
               [] c = QUOTE -> scan_string(src, st)
               [] OTHER ->
                    IF is_ascii_digit(c) THEN scan_number(src, st)
                    ELSE IF is_ascii_alphabetic(c) \/ c = "_" THEN scan_identifier(src, st)
                    ELSE error(st, "Unexpected character.")

ScannerState ==
    [start |-> start, current |-> current, line |-> line, tokens |-> tokens,
     had_error |-> had_error, reports |-> reports, panic |-> FALSE]

-----------------------------------------------------------------------------
(* Expressions: the variants of crate::expr, with the fields the parser    *)
(* gives them where it builds them                                          *)

LiteralExpr(value) == [node |-> "Literal", value |-> value]
GroupingExpr(e) == [node |-> "Grouping", expression |-> e]
UnaryExpr(operator, right) == [node |-> "Unary", operator |-> operator, right |-> right]
BinaryExpr(left, operator, right) ==
    [node |-> "Binary", left |-> left, operator |-> operator, right |-> right]

BooleanValue(b) == [t |-> "Boolean", b |-> b]
NilValue == [t |-> "Nil"]
NumberValue(n) == [t |-> "Number", num |-> n]
StringValue(s) == [t |-> "String", str |-> s]

DigitValue(c) ==
    CASE c = "0" -> 0 [] c = "1" -> 1 [] c = "2" -> 2 [] c = "3" -> 3
      [] c = "4" -> 4 [] c = "5" -> 5 [] c = "6" -> 6 [] c = "7" -> 7
      [] c = "8" -> 8 [] c = "9" -> 9

RECURSIVE Mantissa(_)
\* the digits of a text read as one decimal integer, the '.' skipped
Mantissa(text) ==
    IF text = <<>> THEN 0
    ELSE LET c == text[Len(text)]
             front == SubSeq(text, 1, Len(text) - 1)
         IN  IF c = "." THEN Mantissa(front) ELSE 10 * Mantissa(front) + DigitValue(c)

RECURSIVE Normalized(_, _)
\* mant / 10^scale without trailing zeros in the fraction: 1.50 = 1.5
Normalized(mant, scale) ==
    IF scale > 0 /\ mant % 10 = 0 THEN Normalized(mant \div 10, scale - 1)
    ELSE <<mant, scale>>

\* lexeme.parse::<f64>() on texts of digits and '.': the value is the pair
\* <<m, s>> standing for m / 10^s; any other text is an Err here
ParseF64(text) ==
    LET dots == {i \in 1..Len(text) : text[i] = "."}
        digits == {i \in 1..Len(text) : text[i] \in AsciiDigits}
    IN  IF /\ \A i \in 1..Len(text) : text[i] \in AsciiDigits \cup {"."}
           /\ Cardinality(dots) <= 1
           /\ digits # {}
        THEN [ok |-> TRUE,
              num |-> Normalized(Mantissa(text),
                                 IF dots = {} THEN 0
                                 ELSE Len(text) - (CHOOSE i \in dots : TRUE))]
        ELSE [ok |-> FALSE, num |-> <<0, 0>>]

-----------------------------------------------------------------------------
(* Parser.  A result is [kind |-> "ok", expr, cur], [kind |-> "err", err,   *)
(* cur] or [kind |-> "panic", cur]; cur is Parser.current on return.        *)

Ok(e, cur) == [kind |-> "ok", expr |-> e, cur |-> cur]
ParserError(message, ln, token) == [message |-> message, line |-> ln, token |-> token]
Err(e, cur) == [kind |-> "err", err |-> e, cur |-> cur]
PanicResult(cur) == [kind |-> "panic", cur |-> cur]

\* tokens[self.current] is in bounds
InBounds(toks, cur) == cur >= 0 /\ cur < Len(toks)

\* Parser::is_at_end, where tokens[self.current] is in bounds
p_is_at_end(toks, cur) == toks[cur + 1].token_type = "Eof"

\* Parser::peek, where tokens[self.current] is in bounds
p_peek(toks, cur) == toks[cur + 1]

\* Parser::previous, where self.current >= 1
previous(toks, cur) == toks[cur]

\* advance without the test of is_at_end: it steps over the Eof token too
AdvancePastEof(toks, cur) ==
    IF ~InBounds(toks, cur) THEN [kind |-> "panic", cur |-> cur]
    ELSE [kind |-> "ok", cur |-> cur + 1, token |-> previous(toks, cur + 1)]

\* Parser::advance: [kind |-> "ok", cur, token] or a panic
advance(toks, cur) ==
    IF ~InBounds(toks, cur) THEN [kind |-> "panic", cur |-> cur]
    ELSE LET cur1 == IF ~p_is_at_end(toks, cur) THEN cur + 1 ELSE cur
         IN  IF cur1 = 0 THEN [kind |-> "panic", cur |-> cur1]   \* tokens[0 - 1]
             ELSE [kind |-> "ok", cur |-> cur1, token |-> previous(toks, cur1)]

\* Parser::check, where tokens[self.current] is in bounds
check(toks, cur, type) ==
    IF p_is_at_end(toks, cur) THEN FALSE ELSE p_peek(toks, cur).token_type = type

\* Parser::match_tokens: [kind |-> "yes", cur], [kind |-> "no", cur] or a panic
match_tokens(toks, cur, types) ==
    IF ~InBounds(toks, cur) THEN [kind |-> "panic", cur |-> cur]
    ELSE IF \E i \in 1..Len(types) : check(toks, cur, types[i])
    THEN LET a == advance(toks, cur)
         IN  [kind |-> IF a.kind = "ok" THEN "yes" ELSE "panic", cur |-> a.cur]
    ELSE [kind |-> "no", cur |-> cur]

\* the one element of a singleton set: in  Only({F(r) : r \in {e}})  r is
\* the value of e, computed once
Only(S) == CHOOSE x \in S : TRUE

RECURSIVE expression(_, _)
RECURSIVE equality(_, _)
RECURSIVE EqualityLoop(_, _, _)
RECURSIVE comparison(_, _)
RECURSIVE ComparisonLoop(_, _, _)
RECURSIVE term(_, _)
RECURSIVE TermLoop(_, _, _)
RECURSIVE factor(_, _)
RECURSIVE FactorLoop(_, _, _)
RECURSIVE unary(_, _)
RECURSIVE primary(_, _)

expression(toks, cur) == equality(toks, cur)

EqualityTypes == <<"BangEqual", "EqualEqual">>
ComparisonTypes == <<"Greater", "GreaterEqual", "Less", "LessEqual">>
TermTypes == <<"Plus", "Minus">>
FactorTypes == <<"Slash", "Star">>
UnaryTypes == <<"Bang", "Minus">>

\* the while loop of equality, expr being the tree folded so far
EqualityLoop(toks, expr, cur) ==
    LET m == match_tokens(toks, cur, EqualityTypes)
    IN  CASE m.kind = "panic" -> PanicResult(m.cur)
          [] m.kind = "no" -> Ok(expr, cur)
          [] OTHER ->
               Only({ IF right.kind # "ok" THEN right
                      ELSE EqualityLoop(toks,
                               BinaryExpr(expr, previous(toks, m.cur), right.expr),
                               right.cur)
                      : right \in {comparison(toks, m.cur)} })

equality(toks, cur) ==
    Only({ IF first.kind # "ok" THEN first
           ELSE EqualityLoop(toks, first.expr, first.cur)
           : first \in {comparison(toks, cur)} })

\* the while loop of comparison
ComparisonLoop(toks, expr, cur) ==
    LET m == match_tokens(toks, cur, ComparisonTypes)
    IN  CASE m.kind = "panic" -> PanicResult(m.cur)
          [] m.kind = "no" -> Ok(expr, cur)
          [] OTHER ->
               Only({ IF right.kind # "ok" THEN right
                      ELSE ComparisonLoop(toks,
                               BinaryExpr(expr, previous(toks, m.cur), right.expr),
                               right.cur)
                      : right \in {term(toks, m.cur)} })

comparison(toks, cur) ==
    Only({ IF first.kind # "ok" THEN first
           ELSE ComparisonLoop(toks, first.expr, first.cur)
           : first \in {term(toks, cur)} })

\* term with its right operand parsed by term itself: a right-nested fold
TermLoopRightNested(toks, expr, cur) ==
    LET m == match_tokens(toks, cur, TermTypes)
    IN  CASE m.kind = "panic" -> PanicResult(m.cur)
          [] m.kind = "no" -> Ok(expr, cur)
          [] OTHER ->
               Only({ IF right.kind # "ok" THEN right
                      ELSE Ok(BinaryExpr(expr, previous(toks, m.cur), right.expr),
                              right.cur)
                      : right \in {term(toks, m.cur)} })

\* the while loop of term
TermLoop(toks, expr, cur) ==
    LET m == match_tokens(toks, cur, TermTypes)
    IN  CASE m.kind = "panic" -> PanicResult(m.cur)
          [] m.kind = "no" -> Ok(expr, cur)
          [] OTHER ->
               Only({ IF right.kind # "ok" THEN right
                      ELSE TermLoop(toks,
                               BinaryExpr(expr, previous(toks, m.cur), right.expr),
                               right.cur)
                      : right \in {factor(toks, m.cur)} })

term(toks, cur) ==
    Only({ IF first.kind # "ok" THEN first
           ELSE TermLoop(toks, first.expr, first.cur)
           : first \in {factor(toks, cur)} })

\* the while loop of factor
FactorLoop(toks, expr, cur) ==
    LET m == match_tokens(toks, cur, FactorTypes)
    IN  CASE m.kind = "panic" -> PanicResult(m.cur)
          [] m.kind = "no" -> Ok(expr, cur)
          [] OTHER ->
               Only({ IF right.kind # "ok" THEN right
                      ELSE FactorLoop(toks,
                               BinaryExpr(expr, previous(toks, m.cur), right.expr),
                               right.cur)
                      : right \in {unary(toks, m.cur)} })

factor(toks, cur) ==
    Only({ IF first.kind # "ok" THEN first
           ELSE FactorLoop(toks, first.expr, first.cur)
           : first \in {unary(toks, cur)} })

unary(toks, cur) ==
    LET m == match_tokens(toks, cur, UnaryTypes)
    IN  CASE m.kind = "panic" -> PanicResult(m.cur)
          [] m.kind = "yes" ->
               Only({ IF right.kind # "ok" THEN right
                      ELSE Ok(UnaryExpr(previous(toks, m.cur), right.expr), right.cur)
                      : right \in {unary(toks, m.cur)} })
          [] OTHER -> primary(toks, cur)

\* the '(' arm reporting self.previous() in place of self.peek()
GroupingArmPrevious(toks, cur) ==
    Only({ IF inner.kind # "ok" THEN inner
           ELSE IF ~InBounds(toks, inner.cur) THEN PanicResult(inner.cur)
           ELSE IF p_peek(toks, inner.cur).token_type # "RightParen"
           THEN LET token == previous(toks, inner.cur)
                IN  Err(ParserError("Expect ')' after expression", token.line, token),
                        inner.cur)
           ELSE LET a == advance(toks, inner.cur)
                IN  IF a.kind # "ok" THEN PanicResult(a.cur)
                    ELSE Ok(GroupingExpr(inner.expr), a.cur)
           : inner \in {expression(toks, cur)} })

\* the '(' arm of primary, after the '(' was consumed
GroupingArm(toks, cur) ==
    Only({ IF inner.kind # "ok" THEN inner
           ELSE IF ~InBounds(toks, inner.cur) THEN PanicResult(inner.cur)
           ELSE IF p_peek(toks, inner.cur).token_type # "RightParen"
           THEN LET token == p_peek(toks, inner.cur)
                IN  Err(ParserError("Expect ')' after expression", token.line, token),
                        inner.cur)
           ELSE LET a == advance(toks, inner.cur)
                IN  IF a.kind # "ok" THEN PanicResult(a.cur)
                    ELSE Ok(GroupingExpr(inner.expr), a.cur)
           : inner \in {expression(toks, cur)} })

primary(toks, cur) ==
    IF ~InBounds(toks, cur) THEN PanicResult(cur)
    ELSE
    LET type == p_peek(toks, cur).token_type
        a == advance(toks, cur)
    IN  CASE type \in {"False", "True", "Nil", "Number", "String", "LeftParen"}
             /\ a.kind # "ok" -> PanicResult(a.cur)
          [] type = "False" -> Ok(LiteralExpr(BooleanValue(FALSE)), a.cur)
          [] type = "True" -> Ok(LiteralExpr(BooleanValue(TRUE)), a.cur)
          [] type = "Nil" -> Ok(LiteralExpr(NilValue), a.cur)
          [] type = "Number" ->
               LET num == ParseF64(a.token.lexeme)
               IN  IF ~num.ok
                   THEN Err(ParserError("Invalid number", a.token.line, a.token), a.cur)
                   ELSE Ok(LiteralExpr(NumberValue(num.num)), a.cur)
          [] type = "String" -> Ok(LiteralExpr(StringValue(a.token.lexeme)), a.cur)
          [] type = "LeftParen" -> GroupingArm(toks, a.cur)
          [] OTHER ->
               LET token == p_peek(toks, cur)
               IN  Err(ParserError("Expect expression", token.line, token), cur)

-----------------------------------------------------------------------------
(* Inputs *)

SeqsUpTo(S, n) == UNION {[1..k -> S] : k \in 0..n}

\* the character sets the source texts are drawn from, one per scanner arm
OperatorChars == {"!", "=", "<", ">", " ", EAcute}
NumberChars == {"1", "2", ".", " ", EAcute}
StringChars == {QUOTE, "a", NL, " ", EAcute}
CommentChars == {"/", NL, "a", QUOTE, EAcute}
IdentifierChars == {"o", "r", "_", "1", " ", EAcute}
ErrorChars == {"@", "(", "1", NL, EAcute}
Themes == {OperatorChars, NumberChars, StringChars, CommentChars,
           IdentifierChars, ErrorChars}

\* source texts of the tests of scanner.rs and of the examples of the
\* documentation, longer than MaxLen
ExampleSources ==
    { <<"(", ")", "{", "}", ",", ".", "-", "+", ";", "*">>,
      <<"!", " ", "!", "=", " ", "=", " ", "=", "=", " ", "<", " ", "<", "=",
        " ", ">", " ", ">", "=">>,
      <<"=", "=", "=">>,
      <<"/", " ", "/", "/", " ", "c", "\n", "/">>,
      <<QUOTE, "h", "e", "l", "l", "o", " ", "w", "o", "r", "l", "d", QUOTE>>,
      <<QUOTE, "h", "e", "l", "l", "o", "\n", "w", "o", "r", "l", "d", QUOTE>>,
      <<QUOTE, "h", "e", "l", "l", "o", QUOTE>>,
      <<QUOTE, "h", "e", "l", "l", "o">>,
      <<"1", "2", "3">>,
      <<"1", "2", "3", ".", "4", "5", "6">>,
      <<"3", ".">>,
      <<"1", ".", "2", ".", "3">>,
      <<"i", "f", " ", "e", "l", "s", "e", " ", "w", "h", "i", "l", "e", " ",
        "f", "o", "r", " ", "c", "l", "a", "s", "s", " ", "f", "u", "n", " ",
        "v", "a", "r">>,
      <<"a", "n", "d", " ", "f", "a", "l", "s", "e", " ", "n", "i", "l", " ",
        "o", "r", " ", "p", "r", "i", "n", "t", " ", "r", "e", "t", "u", "r", "n",
        " ", "s", "u", "p", "e", "r", " ", "t", "h", "i", "s", " ", "t", "r", "u",
        "e">>,
      <<"m", "y", "V", "a", "r", " ", "_", "t", "e", "s", "t", "1", "2", "3",
        " ", "h", "e", "l", "l", "o", "_", "w", "o", "r", "l", "d">>,
      <<"o", "r", "c", "h", "i", "d", " ", "v", "a", "r", "i", "a", "b", "l", "e">>,
      <<" ", " ", "\t", "\r", "\n", " ", " ", "v", "a", "r", " ", " ", "\n",
        " ", " ", "x", " ", " ">>,
      <<"v", "a", "r", " ", "x", " ", "=", " ", "4", "2", ";">>,
      <<"3", " ", "+", " ", "4", " ", "*", " ", "5", " ", "-", " ", "2">>,
      <<"v", "a", "r", " ", "x", "\n", "v", "a", "r", " ", "y", "\n", "v", "a",
        "r", " ", "z">>,
      <<"t", "r", "u", "e", " ", "f", "a", "l", "s", "e", " ", "n", "i", "l">>,
      <<"(", "1", " ", "+", " ", "2", ")", " ", "*", " ", "3">>,
      <<"(", "1", " ", "+", " ", "2">>,
      <<EAcute, " ", "i", "f", " ">>,
      <<EAcute, " ", "!", "=", " ">> }

\* the source texts scanned: every text of at most MaxLen characters of one
\* theme, and the examples
IsSource(src) ==
    \/ \E theme \in Themes : \E k \in 0..MaxLen : src \in [1..k -> theme]
    \/ src \in ExampleSources

NoResult == [kind |-> "none"]

\* the process has not exited
NoExit == -1

\* no driver: the scanner and the parser are used as a library
NoDriver ==
    /\ jlox_had_error = FALSE
    /\ jpc = "idle"
    /\ exit_code = NoExit
    /\ stdout = <<>>

-----------------------------------------------------------------------------
(* The scanner and the parser fed with its tokens *)

\* Scanner::new(source); no parser yet
Init ==
    /\ IsSource(source)
    /\ start = 0
    /\ current = 0
    /\ line = 1
    /\ tokens = <<>>
    /\ had_error = FALSE
    /\ reports = <<>>
    /\ pc = "scanning"
    /\ ptokens = <<>>
    /\ pcurrent = 0
    /\ ppc = "none"
    /\ presult = NoResult
    /\ NoDriver

\* one iteration of the loop of scan_tokens: start = current; scan_token()
ScanToken ==
    /\ pc = "scanning"
    /\ ~is_at_end(source, current)
    /\ \E st \in {scan_token(source, [ScannerState EXCEPT !.start = current])} :
           /\ start' = st.start
           /\ current' = st.current
           /\ line' = st.line
           /\ tokens' = st.tokens
           /\ had_error' = st.had_error
           /\ reports' = st.reports
           /\ pc' = IF st.panic THEN "panicked" ELSE "scanning"
    /\ UNCHANGED <<source, parseVars, driverVars>>

\* the end of scan_tokens: the Eof token is pushed and the tokens returned
ScanEof ==
    /\ pc = "scanning"
    /\ is_at_end(source, current)
    /\ tokens' = Append(tokens, Token("Eof", <<>>, None, line))
    /\ pc' = "done"
    /\ UNCHANGED <<source, start, current, line, had_error, reports, parseVars,
                   driverVars>>

\* Parser::new(tokens) on the tokens scan_tokens returned: the pipeline
\* scanner -> parser (Jlox::run in main.rs is still a stub that calls neither)
ParserNew ==
    /\ pc = "done"
    /\ ppc = "none"
    /\ ptokens' = tokens
    /\ pcurrent' = 0
    /\ ppc' = "ready"
    /\ UNCHANGED <<scanVars, presult, driverVars>>

\* Parser::expression
Expression ==
    /\ ppc = "ready"
    /\ \E r \in {expression(ptokens, pcurrent)} :
           /\ presult' = r
           /\ pcurrent' = r.cur
           /\ ppc' = IF r.kind = "panic" THEN "panicked" ELSE "returned"
    /\ UNCHANGED <<scanVars, ptokens, driverVars>>

Next == ScanToken \/ ScanEof \/ ParserNew \/ Expression

Spec == Init /\ [][Next]_vars

-----------------------------------------------------------------------------
(* The parser on any token sequence that ends in Eof *)

\* the token a word stands for, on line ln
WordToken(w, ln) ==
    CASE w = "1" -> Token("Number", <<"1">>, Some(<<"1">>), ln)
      [] w = "2" -> Token("Number", <<"2">>, Some(<<"2">>), ln)
      [] w = "3" -> Token("Number", <<"3">>, Some(<<"3">>), ln)
      [] w = "1.50" -> Token("Number", <<"1", ".", "5", "0">>, Some(<<"1", ".", "5", "0">>), ln)
      [] w = "1.2.3" -> Token("Number", <<"1", ".", "2", ".", "3">>, None, ln)
      [] w = "s" -> Token("String", <<QUOTE, "s", QUOTE>>, Some(<<"s">>), ln)
      [] w = "x" -> Token("Identifier", <<"x">>, None, ln)
      [] w = "true" -> Token("True", <<"t", "r", "u", "e">>, None, ln)
      [] w = "false" -> Token("False", <<"f", "a", "l", "s", "e">>, None, ln)
      [] w = "nil" -> Token("Nil", <<"n", "i", "l">>, None, ln)
      [] w = "(" -> Token("LeftParen", <<"(">>, None, ln)
      [] w = ")" -> Token("RightParen", <<")">>, None, ln)
      [] w = "-" -> Token("Minus", <<"-">>, None, ln)
      [] w = "+" -> Token("Plus", <<"+">>, None, ln)
      [] w = "*" -> Token("Star", <<"*">>, None, ln)
      [] w = "/" -> Token("Slash", <<"/">>, None, ln)
      [] w = "!" -> Token("Bang", <<"!">>, None, ln)
      [] w = "!=" -> Token("BangEqual", <<"!", "=">>, None, ln)
      [] w = "==" -> Token("EqualEqual", <<"=", "=">>, None, ln)
      [] w = "<" -> Token("Less", <<"<">>, None, ln)
      [] w = "<=" -> Token("LessEqual", <<"<", "=">>, None, ln)
      [] w = ">" -> Token("Greater", <<">">>, None, ln)
      [] w = ">=" -> Token("GreaterEqual", <<">", "=">>, None, ln)
      [] w = ";" -> Token("Semicolon", <<";">>, None, ln)
      [] w = "eof" -> Token("Eof", <<>>, None, ln)

\* the tokens of a sequence of words, the i-th on line i, and the Eof token
WordTokens(ws) ==
    [i \in 1..(Len(ws) + 1) |->
        IF i <= Len(ws) THEN WordToken(ws[i], i) ELSE Token("Eof", <<>>, None, i)]

\* the words the token sequences are drawn from exhaustively
Words == {"1", "s", "(", ")", "-", "*", "<", "=="}

\* longer sequences: the examples of the documentation and the other tokens
ExampleWords ==
    { <<"1", "+", "2", "*", "3">>,
      <<"1", "-", "2", "-", "3">>,
      <<"(", "1", "+", "2", ")", "*", "3">>,
      <<"(", "1", "+", "2">>,
      <<"1", "+">>,
      <<"-", "-", "1.50">>,
      <<"!", "!", "true">>,
      <<"!", "false", "!=", "nil">>,
      <<"1", "/", "2", "/", "3">>,
      <<"1", ">", "2", ">=", "3", "<=", "1">>,
      <<"1", "==", "2", "<", "3", "+", "1", "*", "-", "2">>,
      <<"1", "*", "2", "+", "3", "<", "1", "==", "2">>,
      <<"(", "(", "1", ")", ")", "-", "(", "s", ")">>,
      <<"(", "(", "1", ")", "2">>,
      <<"1", "+", "x">>,
      <<"1", ";">>,
      <<"1.2.3", "+", "1">>,
      <<"(", "1", "-", "1.2.3", ")">>,
      <<"1", "eof", "*", "2">>,
      <<"(", "1", "eof", ")">>,
      <<"-", "eof", "1">>,
      <<"1", "-", "-", "2", "*", "(", "-", "3", ")", "eof", "<", "1">> }

\* Parser::new(tokens); no scanner
ParserInit ==
    /\ source = <<>>
    /\ start = 0
    /\ current = 0
    /\ line = 1
    /\ tokens = <<>>
    /\ had_error = FALSE
    /\ reports = <<>>
    /\ pc = "idle"
    /\ \/ \E k \in 0..MaxTokens : \E ws \in [1..k -> Words] : ptokens = WordTokens(ws)
       \/ \E ws \in ExampleWords : ptokens = WordTokens(ws)
    /\ pcurrent = 0
    /\ ppc = "ready"
    /\ presult = NoResult
    /\ NoDriver

ParserNext == Expression

ParserSpec == ParserInit /\ [][ParserNext]_vars

\* Parser::new(tokens) on the shorter token sequences and the examples
CursorInit ==
    /\ source = <<>>
    /\ start = 0
    /\ current = 0
    /\ line = 1
    /\ tokens = <<>>
    /\ had_error = FALSE
    /\ reports = <<>>
    /\ pc = "idle"
    /\ \/ \E k \in 0..MaxCursorTokens : \E ws \in [1..k -> Words] :
             ptokens = WordTokens(ws)
       \/ \E ws \in ExampleWords : ptokens = WordTokens(ws)
    /\ pcurrent = 0
    /\ ppc = "ready"
    /\ presult = NoResult
    /\ NoDriver

CursorNext == Expression

CursorSpec == CursorInit /\ [][CursorNext]_vars

-----------------------------------------------------------------------------
(* The driver (src/src/main.rs) running a file.  Jlox::run is a stub: it    *)
(* prints its source text and calls neither the scanner nor the parser;     *)
(* Jlox::error and Jlox::report, which set Jlox.had_error, have no caller.  *)

\* Jlox::run: println!("...: {}", source), and nothing else
run(out, src) == Append(out, src)

\* Jlox::new(), and the contents of the file named on the command line
DriverInit ==
    /\ IsSource(source)
    /\ start = 0
    /\ current = 0
    /\ line = 1
    /\ tokens = <<>>
    /\ had_error = FALSE
    /\ reports = <<>>
    /\ pc = "idle"
    /\ ptokens = <<>>
    /\ pcurrent = 0
    /\ ppc = "none"
    /\ presult = NoResult
    /\ jlox_had_error = FALSE
    /\ jpc = "new"
    /\ exit_code = NoExit
    /\ stdout = <<>>

\* main with one argument: jlox.run_file(path).  fs::read_to_string fails
\* (main exits with 1) or gives the contents; run(&contents); exit(65) when
\* had_error is set; otherwise Ok(()) and main returns (exit code 0)
RunFile ==
    /\ jpc = "new"
    /\ \E read_ok \in BOOLEAN :
          IF ~read_ok
          THEN /\ stdout' = stdout
               /\ jpc' = "exited"
               /\ exit_code' = 1
          ELSE /\ stdout' = run(stdout, source)
               /\ IF jlox_had_error
                  THEN jpc' = "exited" /\ exit_code' = 65
                  ELSE jpc' = "returned" /\ exit_code' = 0
    /\ UNCHANGED <<scanVars, parseVars, jlox_had_error>>

DriverNext == RunFile

DriverSpec == DriverInit /\ [][DriverNext]_vars

-----------------------------------------------------------------------------
(* The reference grammar                                                   *)
(*   equality > comparison > term > factor > unary > primary               *)

\* the level of a binary operator: 1 equality .. 4 factor; 0 is no operator
OperatorLevel(type) ==
    CASE type \in {"BangEqual", "EqualEqual"} -> 1
      [] type \in {"Greater", "GreaterEqual", "Less", "LessEqual"} -> 2
      [] type \in {"Plus", "Minus"} -> 3
      [] type \in {"Slash", "Star"} -> 4
      [] OTHER -> 0

\* the level of the production that derives a tree: 5 unary, 6 primary
Level(e) ==
    CASE e.node = "Binary" -> OperatorLevel(e.operator.token_type)
      [] e.node = "Unary" -> 5
      [] OTHER -> 6

LiteralMatches(value, token) ==
    CASE token.token_type = "Number" -> value.t = "Number"
      [] token.token_type = "String" -> value.t = "String"
      [] token.token_type = "True" -> value = BooleanValue(TRUE)
      [] token.token_type = "False" -> value = BooleanValue(FALSE)
      [] token.token_type = "Nil" -> value = NilValue
      [] OTHER -> FALSE

RECURSIVE Derives(_, _, _, _)
\* e is the derivation tree of the tokens toks[i..j] in the reference
\* grammar: a binary node of level L has a left child of level >= L (left
\* associative) and a right child of level > L
Derives(e, toks, i, j) ==
    CASE e.node = "Literal" -> i = j /\ LiteralMatches(e.value, toks[i])
      [] e.node = "Grouping" ->
           /\ i + 2 <= j
           /\ toks[i].token_type = "LeftParen"
           /\ toks[j].token_type = "RightParen"
           /\ Derives(e.expression, toks, i + 1, j - 1)
      [] e.node = "Unary" ->
           /\ i < j
           /\ toks[i] = e.operator
           /\ e.operator.token_type \in {"Bang", "Minus"}
           /\ Level(e.right) >= 5
           /\ Derives(e.right, toks, i + 1, j)
      [] e.node = "Binary" ->
           /\ Level(e) \in 1..4
           /\ Level(e.left) >= Level(e)
           /\ Level(e.right) > Level(e)
           /\ \E k \in (i + 1)..(j - 1) :
                /\ toks[k] = e.operator
                /\ Derives(e.left, toks, i, k - 1)
                /\ Derives(e.right, toks, k + 1, j)
      [] OTHER -> FALSE

Num(n) == LiteralExpr(NumberValue(<<n, 0>>))

\* C1: whenever Parser::expression accepts a token sequence ending in Eof, the
\* tree it returns is the reference grammar's derivation tree of the tokens
\* it consumed, and the token it stopped at is no binary operator (the prefix
\* is maximal); 1 - 2 - 3 folds to the left, in 1 + 2 * 3 the '*' node is the
\* right child of the '+' node, - - 1.50 nests to the right, and (1 + 2) * 3
\* keeps the Grouping node as the left child of the '*' node.
C1_ReferenceTree ==
    /\ (ppc = "returned" /\ presult.kind = "ok") =>
          /\ presult.cur \in 1..(Len(ptokens) - 1)
          /\ Derives(presult.expr, ptokens, 1, presult.cur)
          /\ OperatorLevel(ptokens[presult.cur + 1].token_type) = 0
    /\ (ppc = "returned" /\ ptokens = WordTokens(<<"1", "-", "2", "-", "3">>)) =>
          presult = Ok(BinaryExpr(BinaryExpr(Num(1), WordToken("-", 2), Num(2)),
                                  WordToken("-", 4), Num(3)), 5)
    /\ (ppc = "returned" /\ ptokens = WordTokens(<<"1", "+", "2", "*", "3">>)) =>
          presult = Ok(BinaryExpr(Num(1), WordToken("+", 2),
                                  BinaryExpr(Num(2), WordToken("*", 4), Num(3))), 5)
    /\ (ppc = "returned" /\ ptokens = WordTokens(<<"-", "-", "1.50">>)) =>
          presult = Ok(UnaryExpr(WordToken("-", 1), UnaryExpr(WordToken("-", 2),
                           LiteralExpr(NumberValue(<<15, 1>>)))), 3)
    /\ (ppc = "returned"
        /\ ptokens = WordTokens(<<"(", "1", "+", "2", ")", "*", "3">>)) =>
          presult = Ok(BinaryExpr(
                           GroupingExpr(BinaryExpr(Num(1), WordToken("+", 3), Num(2))),
                           WordToken("*", 6), Num(3)), 7)

\* a parse of (1 + 2) * 3 has returned its tree
C1_Witness ==
    /\ ppc = "returned"
    /\ presult.kind = "ok"
    /\ presult.expr.node = "Binary"
    /\ presult.expr.operator.token_type = "Star"
    /\ presult.expr.left.node = "Grouping"
    /\ presult.expr.left.expression.node = "Binary"

OperandEnd == {"Number", "String", "True", "False", "Nil", "RightParen"}
PrimaryStart == {"Number", "String", "True", "False", "Nil", "LeftParen"}

\* the '(' not yet closed among the first n tokens
OpenParens(toks, n) ==
    Cardinality({i \in 1..n : toks[i].token_type = "LeftParen"})
    - Cardinality({i \in 1..n : toks[i].token_type = "RightParen"})

\* C2: a parse never panics; when no production matches it returns one
\* ParserError and no tree, the error carries the token at Parser.current and
\* that token's line, and the message is "Expect ')' after expression" exactly
\* when the failure follows a complete operand inside an open '(' (the token
\* is then no ')'), and "Expect expression" exactly when an operand is due
\* and the token starts none; the tokens of "(1 + 2" fail at Eof with the
\* first message, those of "*", of "1 +" and Eof alone with the second.
C2_SyntaxError ==
    /\ ppc # "panicked"
    /\ ppc = "returned" => presult.kind \in {"ok", "err"}
    /\ (ppc = "returned" /\ presult.kind = "err") =>
          /\ DOMAIN presult = {"kind", "err", "cur"}
          /\ presult.cur = pcurrent
          /\ presult.err.message \in
               {"Expect ')' after expression", "Expect expression", "Invalid number"}
          /\ presult.err.message # "Invalid number" =>
               LET token == ptokens[pcurrent + 1]
                   afterOperand ==
                       pcurrent >= 1 /\ ptokens[pcurrent].token_type \in OperandEnd
               IN  /\ presult.err.token = token
                   /\ presult.err.line = token.line
                   /\ (presult.err.message = "Expect ')' after expression")
                        <=> afterOperand
                   /\ afterOperand =>
                        /\ token.token_type # "RightParen"
                        /\ OpenParens(ptokens, pcurrent) > 0
                   /\ ~afterOperand =>
                        token.token_type \notin PrimaryStart \cup {"Bang", "Minus"}
    /\ (ppc = "returned" /\ ptokens = WordTokens(<<"(", "1", "+", "2">>)) =>
          presult = Err(ParserError("Expect ')' after expression", 5,
                                    Token("Eof", <<>>, None, 5)), 4)
    /\ (ppc = "returned" /\ ptokens = WordTokens(<<"*">>)) =>
          presult = Err(ParserError("Expect expression", 1, WordToken("*", 1)), 0)
    /\ (ppc = "returned" /\ ptokens = WordTokens(<<"1", "+">>)) =>
          presult = Err(ParserError("Expect expression", 3,
                                    Token("Eof", <<>>, None, 3)), 2)
    /\ (ppc = "returned" /\ ptokens = WordTokens(<<>>)) =>
          presult = Err(ParserError("Expect expression", 1,
                                    Token("Eof", <<>>, None, 1)), 0)

\* the parse of the tokens of "(1 + 2" has failed at Eof
C2_Witness ==
    /\ ppc = "returned"
    /\ presult.kind = "err"
    /\ presult.err.message = "Expect ')' after expression"
    /\ presult.err.token.token_type = "Eof"
    /\ Len(ptokens) = 5

-----------------------------------------------------------------------------
(* The scanner's contract, one scan_token call at a time.  In a state with  *)
(* pc = "scanning" and current < Len(source) the next step is the call of   *)
(* scan_token on the character source[current + 1].                         *)

\* scan_token is about to be called on a character of the set cs
AtChar(cs) == pc = "scanning" /\ current < Len(source) /\ source[current + 1] \in cs

\* the call returned, emitted the token tok and stopped before index next
Emits(tok, next) ==
    /\ pc' = "scanning"
    /\ tokens' = Append(tokens, tok)
    /\ current' = next
    /\ had_error' = had_error

\* the call returned, emitted nothing and stopped before index next
EmitsNothing(next) ==
    /\ pc' = "scanning"
    /\ tokens' = tokens
    /\ current' = next

\* the number of newline characters among the first n of src
NewlinesIn(src, n) == Cardinality({i \in 1..n : src[i] = NL})

Min(S) == CHOOSE x \in S : \A y \in S : x <= y
Max(S) == CHOOSE x \in S : \A y \in S : x >= y

\* no character of the source is longer than one byte
AsciiSource == \A i \in 1..Len(source) : source[i] # EAcute

\* the characters that start no token and are no white space
StartsNoToken(c) ==
    /\ c \notin SingleChars \cup {"!", "=", "<", ">", "/", " ", "\r", "\t", NL, QUOTE, "_"}
    /\ c \notin AsciiDigits \cup AsciiLetters

\* C3: for every source text, ASCII or not, scan_tokens never panics; a call
\* of scan_token on a character that starts no token has set had_error,
\* reported "Unexpected character." and stopped right after that character;
\* and the tokens scan_tokens returns end with Eof.
C3_ScanRunsToCompletion ==
    /\ pc # "panicked"
    /\ (pc = "scanning" /\ current > start /\ StartsNoToken(source[start + 1])) =>
          /\ current = start + 1
          /\ had_error
          /\ reports # <<>>
          /\ reports[Len(reports)] = <<line, "Unexpected character.">>
    /\ pc = "done" => tokens[Len(tokens)].token_type = "Eof"

\* the step of C3 on ASCII sources: the character that starts no token sets
\* had_error, emits no token, and the scan goes on with the next character
C3_AsciiBadCharacter ==
    [][(AsciiSource /\ AtChar({"@"})) =>
           /\ EmitsNothing(current + 1)
           /\ had_error'
           /\ reports' = Append(reports, <<line, "Unexpected character.">>)
           /\ line' = line]_vars

\* what C4 says of the call of scan_token on an opening quote
StringStep ==
    LET closing == {k \in (current + 2)..Len(source) : source[k] = QUOTE}
    IN  IF closing # {}
        THEN LET q == Min(closing)
             IN  /\ line' = 1 + NewlinesIn(source, q)
                 /\ Emits(Token("String", SubSeq(source, current + 1, q),
                                Some(SubSeq(source, current + 2, q - 1)), line'),
                          q)
                 /\ reports' = reports
        ELSE /\ EmitsNothing(Len(source))
             /\ line' = 1 + NewlinesIn(source, Len(source))
             /\ had_error'
             /\ reports' = Append(reports, <<line', "Unterminated string.">>)

\* C4: a call of scan_token on an opening '"' emits, when a later '"' exists,
\* one String token whose literal is the characters strictly between the two
\* quotes, whatever they are, whose lexeme includes both quotes and whose line
\* is the line of the closing quote; otherwise it sets had_error, reports
\* "Unterminated string." at the line reached at the end of the input and
\* emits no token.
C4_StringLiteral == [][AtChar({QUOTE}) => StringStep]_vars

\* C4 on sources of ASCII characters only
C4_AsciiStringLiteral == [][(AsciiSource /\ AtChar({QUOTE})) => StringStep]_vars

RECURSIVE StringValuesOf(_)
\* the values of the String literals of a tree, left to right
StringValuesOf(e) ==
    CASE e.node = "Literal" -> IF e.value.t = "String" THEN <<e.value.str>> ELSE <<>>
      [] e.node = "Grouping" -> StringValuesOf(e.expression)
      [] e.node = "Unary" -> StringValuesOf(e.right)
      [] e.node = "Binary" -> StringValuesOf(e.left) \o StringValuesOf(e.right)

RECURSIVE StringLiteralsOf(_, _)
\* the literals of the String tokens among the first n tokens, left to right
StringLiteralsOf(toks, n) ==
    IF n = 0 THEN <<>>
    ELSE StringLiteralsOf(toks, n - 1)
         \o (IF toks[n].token_type = "String" THEN <<toks[n].literal[1]>> ELSE <<>>)

\* C5: the Literal nodes primary builds from the String tokens of the scanner
\* hold the tokens' literals, the text between the quotes without the quotes.
C5_StringValueIsLiteral ==
    (ppc = "returned" /\ presult.kind = "ok") =>
        StringValuesOf(presult.expr) = StringLiteralsOf(ptokens, presult.cur)

TwoCharType(c) ==
    CASE c = "!" -> "BangEqual" [] c = "=" -> "EqualEqual"
      [] c = "<" -> "LessEqual" [] c = ">" -> "GreaterEqual"
OneCharType(c) ==
    CASE c = "!" -> "Bang" [] c = "=" -> "Equal"
      [] c = "<" -> "Less" [] c = ">" -> "Greater"

\* what C6 says of the call of scan_token on '!', '=', '<' or '>'
OperatorStep ==
    LET c == source[current + 1]
        two == current + 2 <= Len(source) /\ source[current + 2] = "="
    IN  /\ line' = line
        /\ IF two
           THEN Emits(Token(TwoCharType(c), <<c, "=">>, None, line), current + 2)
           ELSE Emits(Token(OneCharType(c), <<c>>, None, line), current + 1)

\* C6: a call of scan_token on '!', '=', '<' or '>' emits the two-character
\* token and consumes the '=' exactly when the next character is '=';
\* otherwise it emits the one-character token and stops before the next
\* character.
C6_MaximalMunch == [][AtChar({"!", "=", "<", ">"}) => OperatorStep]_vars

\* C6 on sources of ASCII characters only
C6_AsciiMaximalMunch ==
    [][(AsciiSource /\ AtChar({"!", "=", "<", ">"})) => OperatorStep]_vars

\* digits, or digits '.' digits
IsNumberText(text) ==
    /\ Len(text) >= 1
    /\ \A i \in 1..Len(text) : text[i] \in AsciiDigits \cup {"."}
    /\ text[1] # "."
    /\ text[Len(text)] # "."
    /\ Cardinality({i \in 1..Len(text) : text[i] = "."}) <= 1

\* what C7 says of the call of scan_token on an ASCII digit
NumberStep ==
    LET end == Max({k \in (current + 1)..Len(source) :
                       IsNumberText(SubSeq(source, current + 1, k))})
        text == SubSeq(source, current + 1, end)
    IN  /\ line' = line
        /\ Emits(Token("Number", text, Some(text), line), end)

\* C7: a call of scan_token on an ASCII digit emits one Number token that
\* covers the longest text of the form digits or digits '.' digits starting
\* there, its literal being that text, equal to its lexeme; a '.' no digit
\* follows is left for the next call.
C7_NumberLiteral == [][AtChar(AsciiDigits) => NumberStep]_vars

\* C7 on sources of ASCII characters only
C7_AsciiNumberLiteral == [][(AsciiSource /\ AtChar(AsciiDigits)) => NumberStep]_vars

\* what C8 says of the call of scan_token on '/' or on a newline
SlashStep ==
    LET c == source[current + 1]
        comment == current + 2 <= Len(source) /\ source[current + 2] = "/"
        newlines == {k \in (current + 3)..Len(source) : source[k] = NL}
    IN  CASE c = NL -> EmitsNothing(current + 1) /\ line' = line + 1
          [] c = "/" /\ comment ->
               /\ EmitsNothing(IF newlines # {} THEN Min(newlines) - 1 ELSE Len(source))
               /\ line' = line
               /\ had_error' = had_error
          [] OTHER -> Emits(Token("Slash", <<"/">>, None, line), current + 1) /\ line' = line

\* C8: a call of scan_token on "//" discards every character up to, but not
\* including, the next newline (or up to the end of the input) and emits no
\* token; the call on the newline increments the line counter; a '/' not
\* followed by '/' emits one Slash token.
C8_Comment == [][AtChar({"/", NL}) => SlashStep]_vars

\* C8 on sources of ASCII characters only
C8_AsciiComment == [][(AsciiSource /\ AtChar({"/", NL})) => SlashStep]_vars

\* the 16 reserved words and their token types
ReservedWords ==
    [w \in { <<"a", "n", "d">>, <<"c", "l", "a", "s", "s">>, <<"e", "l", "s", "e">>,
             <<"f", "a", "l", "s", "e">>, <<"f", "o", "r">>, <<"f", "u", "n">>,
             <<"i", "f">>, <<"n", "i", "l">>, <<"o", "r">>,
             <<"p", "r", "i", "n", "t">>, <<"r", "e", "t", "u", "r", "n">>,
             <<"s", "u", "p", "e", "r">>, <<"t", "h", "i", "s">>,
             <<"t", "r", "u", "e">>, <<"v", "a", "r">>, <<"w", "h", "i", "l", "e">> } |->
        CASE w[1] = "a" -> "And"
          [] w[1] = "c" -> "Class"
          [] w[1] = "e" -> "Else"
          [] w[1] = "f" -> (IF w[2] = "a" THEN "False" ELSE IF w[2] = "o" THEN "For" ELSE "Fun")
          [] w[1] = "i" -> "If"
          [] w[1] = "n" -> "Nil"
          [] w[1] = "o" -> "Or"
          [] w[1] = "p" -> "Print"
          [] w[1] = "r" -> "Return"
          [] w[1] = "s" -> "Super"
          [] w[1] = "t" -> (IF w[2] = "h" THEN "This" ELSE "True")
          [] w[1] = "v" -> "Var"
          [] w[1] = "w" -> "While"]

\* a letter, a digit or '_'
IsWordChar(c) == c \in AsciiLetters \cup AsciiDigits \cup {"_", EAcute}

\* what C9 says of the call of scan_token on an ASCII letter or '_'
IdentifierStep ==
    LET end == Max({k \in (current + 1)..Len(source) :
                       \A i \in (current + 1)..k : IsWordChar(source[i])})
        text == SubSeq(source, current + 1, end)
        type == IF text \in DOMAIN ReservedWords THEN ReservedWords[text]
                ELSE "Identifier"
    IN  /\ line' = line
        /\ Emits(Token(type, text, None, line), end)

\* C9: a call of scan_token on an ASCII letter or '_' emits one token whose
\* lexeme is the maximal run of letters, digits and '_' starting there: the
\* keyword token exactly when the whole lexeme is one of the 16 reserved
\* words, an Identifier token otherwise.
C9_Keywords == [][AtChar(AsciiLetters \cup {"_"}) => IdentifierStep]_vars

\* C9 on sources of ASCII characters only
C9_AsciiKeywords ==
    [][(AsciiSource /\ AtChar(AsciiLetters \cup {"_"})) => IdentifierStep]_vars

\* the line counter is 1 plus the newlines consumed, token lines do not
\* decrease, and the Eof token is on the last line
LineCounter ==
    /\ current <= Len(source)
    /\ line = 1 + NewlinesIn(source, current)
    /\ \A i \in 1..(Len(tokens) - 1) : tokens[i].line <= tokens[i + 1].line
    /\ pc = "done" =>
          /\ tokens[Len(tokens)].token_type = "Eof"
          /\ tokens[Len(tokens)].line = 1 + NewlinesIn(source, Len(source))

\* a token pushed by scan_token is on the line of its last character, the
\* character before current
TokenLine ==
    (pc = "scanning" /\ pc' # "done" /\ tokens' # tokens) =>
        /\ Len(tokens') = Len(tokens) + 1
        /\ SubSeq(tokens', 1, Len(tokens)) = tokens
        /\ tokens'[Len(tokens')].line = 1 + NewlinesIn(source, current' - 1)

\* C10: at every point of a scan, of any source text, the line counter is 1
\* plus the number of newlines consumed so far (those inside strings and the
\* one ending a comment included); every token's line is 1 plus the number of
\* newlines before its last character; token lines never decrease; and the
\* Eof token's line is 1 plus the number of newlines of the source.
C10_LineTracking == LineCounter /\ [][LineCounter' /\ TokenLine]_vars

\* a scan has ended that emitted a String token with a newline inside and
\* went on to a later line
C10_Witness ==
    /\ pc = "done"
    /\ \E i \in 1..Len(tokens) :
          /\ tokens[i].token_type = "String"
          /\ tokens[i].line >= 2
          /\ tokens[Len(tokens)].line > tokens[i].line

-----------------------------------------------------------------------------
(* The token sequence against the source text *)

WhiteSpace == {" ", "\r", "\t", NL}

\* the tokens scan_tokens returned end with the one Eof token, of empty
\* lexeme and no literal; a source of single-character punctuation only gave
\* one token per character, in order
EofAndPunctuation ==
    pc = "done" =>
        /\ tokens # <<>>
        /\ tokens[Len(tokens)].token_type = "Eof"
        /\ tokens[Len(tokens)].lexeme = <<>>
        /\ tokens[Len(tokens)].literal = None
        /\ \A i \in 1..(Len(tokens) - 1) : tokens[i].token_type # "Eof"
        /\ (\A i \in 1..Len(source) : source[i] \in SingleChars) =>
              /\ Len(tokens) = Len(source) + 1
              /\ \A i \in 1..Len(source) :
                    tokens[i] = Token(SingleCharType(source[i]), <<source[i]>>, None, 1)
        /\ (\A i \in 1..Len(source) : source[i] \in WhiteSpace) => Len(tokens) = 1

\* a call of scan_token that returned consumed the characters from the old
\* current up to the new one, past the ranges of all earlier calls, and pushed
\* at most one token, whose lexeme is exactly those characters; a call on a
\* white space character pushed none; tokens already pushed never change
SourceRange ==
    /\ Len(tokens') >= Len(tokens)
    /\ SubSeq(tokens', 1, Len(tokens)) = tokens
    /\ (pc = "scanning" /\ pc' = "scanning") =>
          /\ current < current'
          /\ current' <= Len(source)
          /\ \/ tokens' = tokens
             \/ /\ Len(tokens') = Len(tokens) + 1
                /\ tokens'[Len(tokens')].lexeme = SubSeq(source, current + 1, current')
                /\ source[current + 1] \notin WhiteSpace

\* C11: scan_tokens emits the tokens in strict source order: every call of
\* scan_token consumes a range of characters that starts where the previous
\* one ended, so no two ranges overlap, and the token it pushes has exactly
\* the characters of that range as its lexeme; the sequence returned ends
\* with one Eof token of empty lexeme and no literal; a source made only of
\* the characters ( ) { } , . - + ; * gives one token per character and Eof
\* (11 tokens for "(){},.-+;*"), and white space gives no token.
C11_SourceOrder == EofAndPunctuation /\ [][EofAndPunctuation' /\ SourceRange]_vars

\* C11 on sources of ASCII characters only
C11_AsciiSourceOrder ==
    /\ AsciiSource => EofAndPunctuation
    /\ [][AsciiSource => (EofAndPunctuation' /\ SourceRange)]_vars

-----------------------------------------------------------------------------
(* Compile-time errors and the exit code *)

\* the scanner state after Scanner::new
NewScanner ==
    [start |-> 0, current |-> 0, line |-> 1, tokens |-> <<>>,
     had_error |-> FALSE, reports |-> <<>>, panic |-> FALSE]

RECURSIVE ScanTokens(_, _)
\* Scanner::scan_tokens from the state st on: the loop, then the Eof token
ScanTokens(src, st) ==
    IF st.panic THEN st
    ELSE IF is_at_end(src, st.current)
    THEN [st EXCEPT !.tokens = Append(@, Token("Eof", <<>>, None, st.line))]
    ELSE Only({ ScanTokens(src, next)
                : next \in {scan_token(src, [st EXCEPT !.start = st.current])} })

\* the scan of the text reported an error
LexicalError(scanned) == scanned.had_error

\* the scan of the text returned its tokens and their parse failed
SyntaxError(scanned) ==
    ~scanned.panic /\ expression(scanned.tokens, 0).kind = "err"

\* the scan and the parse of the text both succeeded
NoCompileError(scanned) ==
    /\ ~scanned.panic
    /\ ~scanned.had_error
    /\ expression(scanned.tokens, 0).kind = "ok"

\* C12: when run_file has read a file and ended, the process has exited with
\* code 65 if the source text has a lexical error (the scanner reports one)
\* or a syntax error (the parser returns one); if the text scans and parses
\* without error, run_file has returned normally and not exited with 65.
C12_ExitCode65 ==
    (jpc \in {"returned", "exited"} /\ exit_code # 1) =>
        \A scanned \in {ScanTokens(source, NewScanner)} :
            /\ (LexicalError(scanned) \/ SyntaxError(scanned)) =>
                   jpc = "exited" /\ exit_code = 65
            /\ NoCompileError(scanned) => jpc = "returned" /\ exit_code # 65

\* the second half of C12 alone: a text without error never exits with 65
C12_NoErrorNoExit65 ==
    (jpc \in {"returned", "exited"} /\ exit_code # 1) =>
        \A scanned \in {ScanTokens(source, NewScanner)} :
            NoCompileError(scanned) => jpc = "returned" /\ exit_code = 0

-----------------------------------------------------------------------------
(* The parser's cursor *)

\* the index (0-based, as Parser.current) of the first Eof token
FirstEof(toks) == Min({i \in 1..Len(toks) : toks[i].token_type = "Eof"}) - 1

AllTypeLists == {EqualityTypes, ComparisonTypes, TermTypes, FactorTypes, UnaryTypes}

\* what the productions return when they are called with current = c
ProductionResults(toks, c) ==
    { expression(toks, c), equality(toks, c), comparison(toks, c), term(toks, c),
      factor(toks, c), unary(toks, c), primary(toks, c) }

\* what the repetition loops return when they are entered with current = c
LoopResults(toks, c) ==
    { EqualityLoop(toks, Num(0), c), ComparisonLoop(toks, Num(0), c),
      TermLoop(toks, Num(0), c), FactorLoop(toks, Num(0), c) }

\* the helpers called with current = c: advance and match_tokens move the
\* cursor by one token or not at all and never read outside the tokens; a
\* match consumes exactly one token, and none at Eof; advance returns the
\* token it consumed and leaves the cursor on Eof
HelperDiscipline(toks, c) ==
    /\ \A a \in {advance(toks, c)} :
          /\ a.cur \in {c, c + 1}
          /\ a.cur <= FirstEof(toks)
          /\ a.kind = "ok" => a.cur >= 1 /\ a.token = toks[a.cur]
          /\ c < FirstEof(toks) => a.kind = "ok" /\ a.cur = c + 1 /\ a.token = toks[c + 1]
    /\ \A types \in AllTypeLists : \A m \in {match_tokens(toks, c, types)} :
          /\ m.kind \in {"yes", "no"}
          /\ m.kind = "yes" => m.cur = c + 1 /\ c < FirstEof(toks)
          /\ m.kind = "no" => m.cur = c
          /\ c = FirstEof(toks) => m.kind = "no"
    /\ c = FirstEof(toks) =>
          \A type \in {"Eof", "Minus", "Star", "RightParen", "Number"} :
              ~check(toks, c, type)

\* a production called with current = c returns with c <= current <= the
\* index of the first Eof, without a panic, and has consumed at least one
\* token when it returns a tree
ProductionDiscipline(toks, c) ==
    \A r \in ProductionResults(toks, c) :
        /\ r.kind \in {"ok", "err"}
        /\ c <= r.cur
        /\ r.cur <= FirstEof(toks)
        /\ r.kind = "ok" => c < r.cur

\* a loop entered with current = c stops at Eof at the latest, never moves the
\* cursor back, and an iteration (and so the recursive call of unary, made
\* after a match) starts one token further on
LoopDiscipline(toks, c) ==
    /\ \A r \in LoopResults(toks, c) :
          /\ r.kind \in {"ok", "err"}
          /\ c <= r.cur
          /\ r.cur <= FirstEof(toks)
          /\ c = FirstEof(toks) => r = Ok(Num(0), c)
    /\ \A m \in {match_tokens(toks, c, UnaryTypes)} :
          m.kind = "yes" =>
              \A right \in {unary(toks, m.cur)} :
                  \A r \in {unary(toks, c)} :
                      /\ m.cur = c + 1
                      /\ r.cur = right.cur
                      /\ right.cur >= m.cur

CursorDiscipline ==
    ppc = "returned" =>
        /\ Len(ptokens) >= 1
        /\ presult.kind \in {"ok", "err"}
        /\ presult.cur = pcurrent
        /\ 0 <= pcurrent
        /\ pcurrent <= FirstEof(ptokens)
        /\ \A c \in 0..FirstEof(ptokens) :
              /\ HelperDiscipline(ptokens, c)
              /\ ProductionDiscipline(ptokens, c)
              /\ LoopDiscipline(ptokens, c)

\* C13: on every non-empty token sequence that ends in Eof, wherever a parse
\* stands, Parser.current never decreases and never passes the index of the
\* first Eof token: advance and match_tokens move it by at most one token,
\* stay within the tokens and leave it on Eof, check and match_tokens are
\* false at Eof so every loop stops there, previous is never called with
\* current = 0, every production returns at or after the index it was called
\* with, and every loop iteration and recursive call of unary starts one
\* token further on, so the parse ends; Parser::expression, which starts at
\* index 0, never panics and returns at an index from 0 to the first Eof.
C13_CursorDiscipline == ppc # "panicked" /\ CursorDiscipline

\* a parse of 1 - - 2 * ( - 3 ) Eof < 1 Eof has gone through loop iterations
\* and recursive calls of unary and has stopped on the first Eof token, the
\* tokens after it untouched
C13_Witness ==
    /\ ppc = "returned"
    /\ presult.kind = "ok"
    /\ pcurrent = FirstEof(ptokens)
    /\ pcurrent + 1 < Len(ptokens)
    /\ presult.expr.node = "Binary"
    /\ presult.expr.right.node = "Binary"
    /\ presult.expr.right.left.node = "Unary"

====
